---- MODULE Spec2Model ----
(***************************************************************************)
(* Model of spoutFrameCount (Plugin/Spout/SpoutGL/SpoutFrameCount.cpp):    *)
(* the semaphore frame counter shared by one sender process and its        *)
(* receivers, and the named access mutex around the shared texture.        *)
(*                                                                         *)
(* Every process owns one spoutFrameCount object (fc[p], hAccessMutex[p]). *)
(* The kernel objects (the named semaphore, the named mutex) are shared.   *)
(* A call that makes two system calls on a shared object is two steps, so  *)
(* that other processes can run between them; a call that touches only the *)
(* process's own object is one step.                                       *)
(***************************************************************************)
EXTENDS Integers, FiniteSets, Sequences, TLC

\* ------------------------------------------------------------------ sets

Sender == "sender"
Receivers == {"rx1", "rx2"}
Procs == {Sender} \cup Receivers
\* The processes of the specification that runs every call of the object.
LifeProcs == {Sender, "rx1"}

NULL == "NULL"
EmptyName == ""
Names == {"A", "B"}

\* The sender name that a sender and its receivers share.
PeerNames == {"A"}

\* Bound of the model: SetNewFrame is not started once the semaphore has
\* been released this many times.
MaxFrames == 2

\* Maximum count of the semaphore (CreateSemaphoreA's lMaximumCount).
LONG_MAX == 2147483647

\* UpdateSenderFps averages once more than this many frames are accumulated.
FpsWindow == 16

\* spoutFrameCount::GetRefreshRate where no display mode is enumerated, in
\* tenths of a frame per second.
GetRefreshRate == 600

\* The handles of access mutexes followed in one process.
MaxHandles == 2

\* Milliseconds CheckAccess waits for the access mutex.
WaitTimeout == 67

\* Bound of the model: the milliseconds that pass in one step of the clock.
Quantum == 23

\* Bound of the model: CheckAccess calls a process nests before AllowAccess.
MaxNest == 2

\* Bound of the model: ReleaseSync calls made on the keyed mutex.
MaxSync == 2

\* The textures passed to CheckTextureAccess / AllowTextureAccess: none, one
\* without and one with a keyed mutex.
PlainTex == "plainTex"
KeyedTex == "keyedTex"
Textures == {NULL, PlainTex, KeyedTex}

VARIABLES
    fc,        \* fc[p]: the frame counting members of p's spoutFrameCount
    sem,       \* sem[n]: the kernel semaphore "<n>_Count_Semaphore"
    pc,        \* pc[p]: where p is inside SetNewFrame / GetNewFrame
    dwWaitResult, \* dwWaitResult[p]: the local of that name in GetNewFrame
    call,      \* call[p]: record of p's most recent call (history)
    seen,      \* seen[p]: publishes done when p last polled, -1 if none (history)
    npub,      \* npub[n]: publishes completed on sem[n] since its creation (history)
    pubCalled, \* pubCalled[n]: SetNewFrame was called on sem[n] since its creation (history)
    hist,      \* hist[n]: how the calls on sem[n] were ordered so far (history)
    m_hAccessMutex, \* m_hAccessMutex[p]: the member of that name of p's object
    mutex,     \* mutex[n]: the kernel mutex "<n>_SpoutAccessMutex"
    waited,    \* waited[p]: milliseconds p has spent in the wait of CheckAccess
    held,      \* held[p]: the handles of p's CheckAccess calls that returned true and
               \*          have no AllowAccess yet, innermost last (history)
    access,    \* access[p]: record of p's most recent CheckAccess / AllowAccess (history)
    keyed,     \* the keyed mutex of the shared texture KeyedTex
    sync,      \* AcquireSync / ReleaseSync calls made on it so far (history)
    hOpen,     \* hOpen[p][n]: handles of mutex[n] that CreateMutexA gave p's process and
               \*              that were not closed since (history)
    sinceFrameStart \* sinceFrameStart[p]: microseconds from m_FrameStart of p's object to now

countVars == <<fc, sem, dwWaitResult, call, seen, npub, pubCalled, hist>>
lockVars == <<m_hAccessMutex, mutex, waited, held, access, hOpen>>
texVars == <<keyed, sync>>
paceVars == <<sinceFrameStart>>
vars == <<countVars, pc, lockVars, texVars, paceVars>>

\* ------------------------------------------------------- kernel objects

NoSemaphore == [count |-> 0, open |-> {}]

SemExists(s, n) == s[n].open # {}

\* Mutant: CloseHandle is not called.
CloseSemaphoreHandle_Leaks(s, p, h) == s

\* CloseHandle on a semaphore handle: the object goes with its last handle.
CloseSemaphoreHandle(s, p, h) ==
    IF h = NULL THEN s
    ELSE IF s[h].open \ {p} = {} THEN [s EXCEPT ![h] = NoSemaphore]
    ELSE [s EXCEPT ![h].open = @ \ {p}]

\* CreateSemaphoreA(NULL, 1, LONG_MAX, name): creates the object with an
\* initial count of 1, or opens the existing one and leaves its count alone.
CreateSemaphoreA(s, p, n) ==
    IF SemExists(s, n) THEN [s EXCEPT ![n].open = @ \cup {p}]
    ELSE [s EXCEPT ![n] = [count |-> 1, open |-> {p}]]

\* WaitForSingleObject(hSemaphore, 0)
WaitSemaphore(s, h) == IF s[h].count > 0 THEN "WAIT_OBJECT_0" ELSE "WAIT_TIMEOUT"

\* ReleaseSemaphore(h, n, &previous) fails when the count would pass the maximum.
ReleaseSemaphoreOk(s, h, n) == s[h].count + n <= LONG_MAX

\* ------------------------------------------------------------ the object

\* spoutFrameCount::spoutFrameCount, reg is the registry's Framecount setting
Constructed(reg) ==
    [m_bFrameCount |-> reg, m_bDisabled |-> FALSE,
     m_hCountSemaphore |-> NULL, m_SenderName |-> EmptyName,
     m_FrameCount |-> 0, m_LastFrameCount |-> 0,
     m_bIsNewFrame |-> FALSE, m_FrameTimeNumber |-> 0,
     m_millisForFrame |-> 0,
     m_FrameTimeTotal |-> 0, m_SenderFps |-> GetRefreshRate]

\* spoutFrameCount::IsFrameCountEnabled
IsFrameCountEnabled(f) == f.m_bFrameCount /\ ~f.m_bDisabled

\* 0.85*m_SenderFps + 0.15*fps, the average frame time in microseconds and
\* the result in tenths of a frame per second; no change for an average
\* frame time of 0.0001 s or less.
Damped(senderFps, frametime) ==
    IF frametime > 100
    THEN (85 * senderFps + 15 * (10000000 \div frametime)) \div 100
    ELSE senderFps

\* m_FrameTimeNumber > 16
WindowFull(number) == number > FpsWindow

\* spoutFrameCount::UpdateSenderFps, frametime the microseconds since the
\* call before
UpdateSenderFps(f, framecount, frametime) ==
    IF framecount > 0
    THEN LET total == f.m_FrameTimeTotal + frametime
             number == f.m_FrameTimeNumber + framecount
         IN IF WindowFull(number)
            THEN [f EXCEPT !.m_FrameTimeTotal = 0, !.m_FrameTimeNumber = 0,
                           !.m_SenderFps = Damped(@, total \div number)]
            ELSE [f EXCEPT !.m_FrameTimeTotal = total, !.m_FrameTimeNumber = number]
    ELSE f

\* Mutant: CleanupFrameCount leaves the comparator as it is.
CleanupMembers_KeepsComparator(f) ==
    IF f.m_hCountSemaphore = NULL THEN f
    ELSE [f EXCEPT !.m_hCountSemaphore = NULL, !.m_SenderName = EmptyName,
                   !.m_FrameCount = 0, !.m_FrameTimeNumber = 0]

\* Mutant: CleanupFrameCount leaves the frame count as it is.
CleanupMembers_KeepsCount(f) ==
    IF f.m_hCountSemaphore = NULL THEN f
    ELSE [f EXCEPT !.m_hCountSemaphore = NULL, !.m_SenderName = EmptyName,
                   !.m_LastFrameCount = 0, !.m_FrameTimeNumber = 0]

\* Mutant: CleanupFrameCount leaves the handle member as it is.
CleanupMembers_KeepsHandle(f) ==
    IF f.m_hCountSemaphore = NULL THEN f
    ELSE [f EXCEPT !.m_SenderName = EmptyName,
                   !.m_FrameCount = 0, !.m_LastFrameCount = 0,
                   !.m_FrameTimeNumber = 0, !.m_FrameTimeTotal = 0,
                   !.m_SenderFps = GetRefreshRate]

\* spoutFrameCount::CleanupFrameCount, the members it resets
CleanupMembers(f) ==
    IF f.m_hCountSemaphore = NULL THEN f
    ELSE [f EXCEPT !.m_hCountSemaphore = NULL, !.m_SenderName = EmptyName,
                   !.m_FrameCount = 0, !.m_LastFrameCount = 0,
                   !.m_FrameTimeNumber = 0, !.m_FrameTimeTotal = 0,
                   !.m_SenderFps = GetRefreshRate]

\* Mutant: SetFrameCount(true) clears the application disable flag always.
SetFrameCountFlags_AlwaysClears(f, bEnable) ==
    [f EXCEPT !.m_bFrameCount = bEnable, !.m_bDisabled = FALSE]

\* spoutFrameCount::SetFrameCount, the flags it sets
SetFrameCountFlags(f, bEnable) ==
    IF bEnable
    THEN IF ~f.m_bFrameCount
         THEN [f EXCEPT !.m_bFrameCount = TRUE, !.m_bDisabled = FALSE]
         ELSE f
    ELSE [f EXCEPT !.m_bFrameCount = FALSE, !.m_bDisabled = FALSE]

\* spoutFrameCount::EnableFrameCount, the reset of the counters (lines 192-197)
EnableReset(f) ==
    [f EXCEPT !.m_FrameCount = 0, !.m_LastFrameCount = 0, !.m_FrameTimeNumber = 0,
              !.m_FrameTimeTotal = 0, !.m_SenderFps = GetRefreshRate,
              !.m_millisForFrame = 0]

\* Mutant: EnableFrameCount without the test of the application disable flag.
EnableRefused_IgnoresDisabled(f, name) == ~f.m_bFrameCount \/ name = EmptyName

\* spoutFrameCount::EnableFrameCount returns before it touches anything
EnableRefused(f, name) == ~f.m_bFrameCount \/ f.m_bDisabled \/ name = EmptyName

\* spoutFrameCount::EnableFrameCount: already enabled for this sender
AlreadyEnabled(f, name) == f.m_hCountSemaphore # NULL /\ name = f.m_SenderName

\* Mutant: SetNewFrame counts the frame although its wait did not succeed.
SetNewFrameFailed_Counts(f) == [f EXCEPT !.m_FrameCount = @ + 1]

\* spoutFrameCount::SetNewFrame after a wait that did not give WAIT_OBJECT_0
SetNewFrameFailed(f) == f

\* spoutFrameCount::SetNewFrame after a successful ReleaseSemaphore (the calls
\* of a process follow each other in the same instant unless Elapse says
\* otherwise)
SetNewFrameCounted(f) == UpdateSenderFps([f EXCEPT !.m_FrameCount = @ + 1], 1, 0)

\* Mutant: the frame number is cleared when the count has not changed.
GetNewFrameTail_ClearsWhenSame(f, framecount) ==
    LET g == [f EXCEPT !.m_FrameCount = framecount] IN
    IF framecount = 0 THEN [f |-> g, ret |-> TRUE]
    ELSE IF framecount = f.m_LastFrameCount
    THEN [f |-> [g EXCEPT !.m_bIsNewFrame = FALSE, !.m_FrameCount = 0], ret |-> FALSE]
    ELSE [f |-> [UpdateSenderFps(g, framecount - f.m_LastFrameCount, 0)
                   EXCEPT !.m_LastFrameCount = framecount, !.m_bIsNewFrame = TRUE],
          ret |-> TRUE]

\* Mutant: the comparator m_LastFrameCount is not reset to the new count.
GetNewFrameTail_KeepsComparator(f, framecount) ==
    LET g == [f EXCEPT !.m_FrameCount = framecount] IN
    IF framecount = 0 THEN [f |-> g, ret |-> TRUE]
    ELSE IF framecount = f.m_LastFrameCount
    THEN [f |-> [g EXCEPT !.m_bIsNewFrame = FALSE], ret |-> FALSE]
    ELSE [f |-> [UpdateSenderFps(g, framecount - f.m_LastFrameCount, 0)
                   EXCEPT !.m_bIsNewFrame = TRUE],
          ret |-> TRUE]

\* Mutant: a count of zero is compared like any other count.
GetNewFrameTail_NoZeroCase(f, framecount) ==
    LET g == [f EXCEPT !.m_FrameCount = framecount] IN
    IF framecount = f.m_LastFrameCount
    THEN [f |-> [g EXCEPT !.m_bIsNewFrame = FALSE], ret |-> FALSE]
    ELSE [f |-> [UpdateSenderFps(g, framecount - f.m_LastFrameCount, 0)
                   EXCEPT !.m_LastFrameCount = framecount, !.m_bIsNewFrame = TRUE],
          ret |-> TRUE]

\* spoutFrameCount::GetNewFrame from "Update the global frame count" on:
\* the members after the call and the value returned.
GetNewFrameTail(f, framecount) ==
    LET g == [f EXCEPT !.m_FrameCount = framecount] IN
    IF framecount = 0 THEN [f |-> g, ret |-> TRUE]
    ELSE IF framecount = f.m_LastFrameCount
    THEN [f |-> [g EXCEPT !.m_bIsNewFrame = FALSE], ret |-> FALSE]
    ELSE [f |-> [UpdateSenderFps(g, framecount - f.m_LastFrameCount, 0)
                   EXCEPT !.m_LastFrameCount = framecount, !.m_bIsNewFrame = TRUE],
          ret |-> TRUE]

\* Mutant: GetNewFrame releases the semaphore whatever the wait returned.
GetNewFrameRestore_Always(waitResult) == 1

\* Mutant: GetNewFrame does not release the semaphore.
GetNewFrameRestore_Never(waitResult) == 0

\* What GetNewFrame gives back to the semaphore for a wait result.
GetNewFrameRestore(waitResult) == IF waitResult = "WAIT_OBJECT_0" THEN 1 ELSE 0

\* Mutant: SetNewFrame releases only what its wait took.
SetNewFrameGiven_One == 2 - 1

\* What SetNewFrame gives back to the semaphore after its wait succeeded.
SetNewFrameGiven == 2

\* Mutant: GetNewFrame reports no new frame when frame counting is off.
GetNewFrameEarly_False == FALSE

\* What GetNewFrame returns when frame counting is off or there is no semaphore.
GetNewFrameEarly == TRUE

\* ------------------------------------------------------------- history

NoCall == [op |-> "none"]
NoPoll == [npub |-> -1, obs |-> -1, ret |-> "none", first |-> FALSE]
BoolStr(b) == IF b THEN "true" ELSE "false"

OtherCall(name) == [op |-> name]

PollCall(path, ret, wait, taken, given, lastBefore, prev, n) ==
    [op |-> "GetNewFrame", path |-> path, ret |-> ret, wait |-> wait,
     taken |-> taken, given |-> given, lastBefore |-> lastBefore,
     prev |-> prev, npub |-> n]

\* q is between the wait and the release of SetNewFrame or GetNewFrame.
InCount(q) == pc[q] \in {"SetNewFrame", "GetNewFrame"}

\* Processes inside a call on the semaphore h, other than p.
Busy(p, h) == {q \in Procs \ {p} : InCount(q) /\ fc[q].m_hCountSemaphore = h}

HistAfterPublish(p, h) ==
    IF Busy(p, h) # {} THEN "overlapped"
    ELSE IF hist[h] = "polls" THEN "serial" ELSE hist[h]

HistAfterPoll(p, h) ==
    IF Busy(p, h) # {} THEN "overlapped"
    ELSE IF hist[h] = "pubs" THEN "polls" ELSE hist[h]

\* npub and hist follow the semaphores: an object that went is forgotten, a
\* new one starts a fresh history.
NpubFor(s) == [n \in Names |-> IF SemExists(s, n) /\ SemExists(sem, n) THEN npub[n] ELSE 0]
PubCalledFor(s) ==
    [n \in Names |-> SemExists(s, n) /\ SemExists(sem, n) /\ pubCalled[n]]
HistFor(s) ==
    [n \in Names |-> IF ~SemExists(s, n) THEN "none"
                     ELSE IF ~SemExists(sem, n) THEN "pubs" ELSE hist[n]]

\* ------------------------------------------------------------- actions

\* spoutFrameCount::SetFrameCount
SetFrameCount(p, bEnable) ==
    /\ pc[p] = "idle"
    /\ LET f == fc[p]
           cleanup == ~bEnable /\ f.m_bFrameCount /\ IsFrameCountEnabled(f)
           g == IF cleanup THEN CleanupMembers(f) ELSE f
           s == IF cleanup THEN CloseSemaphoreHandle(sem, p, f.m_hCountSemaphore) ELSE sem
       IN /\ fc' = [fc EXCEPT ![p] = SetFrameCountFlags(g, bEnable)]
          /\ sem' = s
          /\ npub' = NpubFor(s)
          /\ pubCalled' = PubCalledFor(s)
          /\ hist' = HistFor(s)
          /\ seen' = [seen EXCEPT ![p] =
                        IF cleanup /\ f.m_hCountSemaphore # NULL THEN NoPoll ELSE @]
    /\ call' = [call EXCEPT ![p] =
                  [op |-> "SetFrameCount", bEnable |-> bEnable,
                   cleaned |-> ~bEnable /\ IsFrameCountEnabled(fc[p])
                               /\ fc[p].m_hCountSemaphore # NULL]]
    /\ UNCHANGED <<pc, dwWaitResult>>
    /\ UNCHANGED <<lockVars, texVars, paceVars>>

\* spoutFrameCount::EnableFrameCount; created is whether CreateSemaphoreA
\* gives a handle.
EnableFrameCount(p, name, created) ==
    /\ pc[p] = "idle"
    /\ LET f == fc[p] IN
       IF EnableRefused(f, name)
       THEN UNCHANGED <<fc, sem, npub, pubCalled, hist, seen>>
       ELSE IF AlreadyEnabled(EnableReset(f), name)
       THEN /\ fc' = [fc EXCEPT ![p] = EnableReset(f)]
            /\ seen' = [seen EXCEPT ![p] = [@ EXCEPT !.npub = -1, !.ret = "none", !.first = FALSE]]
            /\ hist' = [hist EXCEPT ![name] =
                          IF p = Sender /\ npub[name] > 0 /\ @ \in {"pubs", "polls"}
                          THEN "serial" ELSE @]
            /\ UNCHANGED <<sem, npub, pubCalled>>
       ELSE LET closed == CloseSemaphoreHandle(sem, p, f.m_hCountSemaphore)
                s == IF created THEN CreateSemaphoreA(closed, p, name) ELSE closed
                h == HistFor(s)
            IN /\ fc' = [fc EXCEPT ![p] =
                           [EnableReset(f) EXCEPT
                              !.m_SenderName = name,
                              !.m_hCountSemaphore = IF created THEN name ELSE NULL]]
               /\ sem' = s
               /\ npub' = NpubFor(s)
               /\ pubCalled' = PubCalledFor(s)
               /\ hist' = [n \in Names |->
                             IF n = name /\ created /\ p = Sender /\ NpubFor(s)[n] > 0
                                /\ h[n] \in {"pubs", "polls"}
                             THEN "serial" ELSE h[n]]
               /\ seen' = [seen EXCEPT ![p] = NoPoll]
    /\ call' = [call EXCEPT ![p] =
                  [op |-> "EnableFrameCount",
                   name |-> name,
                   path |-> IF EnableRefused(fc[p], name) THEN "refused"
                            ELSE IF AlreadyEnabled(fc[p], name) THEN "already"
                            ELSE IF created THEN "opened" ELSE "failed",
                   had |-> fc[p].m_hCountSemaphore,
                   after |-> IF call[p].op = "DisableFrameCount" THEN call[p] ELSE NoCall]]
    /\ UNCHANGED <<pc, dwWaitResult>>
    /\ UNCHANGED <<lockVars, texVars, paceVars>>

\* spoutFrameCount::DisableFrameCount
DisableFrameCount(p) ==
    /\ pc[p] = "idle"
    /\ LET f == fc[p]
           s == CloseSemaphoreHandle(sem, p, f.m_hCountSemaphore)
       IN /\ fc' = [fc EXCEPT ![p] = [CleanupMembers(f) EXCEPT !.m_bDisabled = TRUE]]
          /\ sem' = s
          /\ npub' = NpubFor(s)
          /\ pubCalled' = PubCalledFor(s)
          /\ hist' = HistFor(s)
          /\ seen' = [seen EXCEPT ![p] = IF f.m_hCountSemaphore # NULL THEN NoPoll ELSE @]
    /\ call' = [call EXCEPT ![p] =
                  [op |-> "DisableFrameCount", name |-> fc[p].m_SenderName,
                   counted |-> fc[p].m_FrameCount > 0]]
    /\ UNCHANGED <<pc, dwWaitResult>>
    /\ UNCHANGED <<lockVars, texVars, paceVars>>



\* spoutFrameCount::SetNewFrame up to its WaitForSingleObject. The call ends
\* here unless the wait gave WAIT_OBJECT_0 (a NULL handle gives WAIT_FAILED).
SetNewFrameWait(p) ==
    /\ pc[p] = "idle"
    /\ LET f == fc[p]
           h == f.m_hCountSemaphore
       IN IF ~f.m_bFrameCount \/ f.m_bDisabled \/ h = NULL
          THEN /\ call' = [call EXCEPT ![p] =
                             [op |-> "SetNewFrame",
                              wait |-> IF IsFrameCountEnabled(f) THEN "WAIT_FAILED" ELSE "none",
                              counted |-> FALSE]]
               /\ fc' = [fc EXCEPT ![p] =
                            IF IsFrameCountEnabled(f) THEN SetNewFrameFailed(@) ELSE @]
               /\ UNCHANGED <<sem, pc, hist, pubCalled>>
          ELSE /\ npub[h] < MaxFrames
               /\ hist' = [hist EXCEPT ![h] = HistAfterPublish(p, h)]
               /\ pubCalled' = [pubCalled EXCEPT ![h] = TRUE]
               /\ IF WaitSemaphore(sem, h) = "WAIT_OBJECT_0"
                  THEN /\ sem' = [sem EXCEPT ![h].count = @ - 1]
                       /\ pc' = [pc EXCEPT ![p] = "SetNewFrame"]
                       /\ call' = [call EXCEPT ![p] = OtherCall("SetNewFrame_wait")]
                       /\ UNCHANGED fc
                  ELSE /\ call' = [call EXCEPT ![p] =
                                     [op |-> "SetNewFrame", wait |-> WaitSemaphore(sem, h),
                                      counted |-> FALSE]]
                       /\ fc' = [fc EXCEPT ![p] = SetNewFrameFailed(@)]
                       /\ UNCHANGED <<sem, pc>>
    /\ UNCHANGED <<dwWaitResult, seen, npub>>
    /\ UNCHANGED <<lockVars, texVars, paceVars>>

\* spoutFrameCount::SetNewFrame, case WAIT_OBJECT_0
SetNewFrameRelease(p) ==
    /\ pc[p] = "SetNewFrame"
    /\ LET h == fc[p].m_hCountSemaphore
           ok == ReleaseSemaphoreOk(sem, h, SetNewFrameGiven)
       IN /\ sem' = IF ok THEN [sem EXCEPT ![h].count = @ + SetNewFrameGiven] ELSE sem
          /\ fc' = IF ok THEN [fc EXCEPT ![p] = SetNewFrameCounted(@)] ELSE fc
          /\ npub' = IF ok THEN [npub EXCEPT ![h] = @ + 1] ELSE npub
          /\ call' = [call EXCEPT ![p] =
                        [op |-> "SetNewFrame", wait |-> "WAIT_OBJECT_0", counted |-> ok]]
    /\ pc' = [pc EXCEPT ![p] = "idle"]
    /\ UNCHANGED <<dwWaitResult, seen, hist, pubCalled>>
    /\ UNCHANGED <<lockVars, texVars, paceVars>>

\* spoutFrameCount::GetNewFrame when it returns before the semaphore is touched
GetNewFrameSkip(p) ==
    /\ pc[p] = "idle"
    /\ ~IsFrameCountEnabled(fc[p]) \/ fc[p].m_hCountSemaphore = NULL
    /\ call' = [call EXCEPT ![p] =
                  PollCall(IF ~IsFrameCountEnabled(fc[p]) THEN "disabled" ELSE "nohandle",
                           GetNewFrameEarly, "none", 0, 0,
                           fc[p].m_LastFrameCount, seen[p], 0)]
    /\ UNCHANGED <<fc, sem, pc, dwWaitResult, seen, npub, pubCalled, hist>>
    /\ UNCHANGED <<lockVars, texVars, paceVars>>

\* spoutFrameCount::GetNewFrame up to its WaitForSingleObject
GetNewFrameWait(p) ==
    /\ pc[p] = "idle"
    /\ IsFrameCountEnabled(fc[p])
    /\ fc[p].m_hCountSemaphore # NULL
    /\ LET h == fc[p].m_hCountSemaphore
           r == WaitSemaphore(sem, h)
       IN /\ dwWaitResult' = [dwWaitResult EXCEPT ![p] = r]
          /\ sem' = IF r = "WAIT_OBJECT_0" THEN [sem EXCEPT ![h].count = @ - 1] ELSE sem
          /\ hist' = [hist EXCEPT ![h] = HistAfterPoll(p, h)]
    /\ pc' = [pc EXCEPT ![p] = "GetNewFrame"]
    /\ call' = [call EXCEPT ![p] = OtherCall("GetNewFrame_wait")]
    /\ UNCHANGED <<fc, seen, npub, pubCalled>>
    /\ UNCHANGED <<lockVars, texVars, paceVars>>

\* spoutFrameCount::GetNewFrame from the switch on dwWaitResult to its return
GetNewFrameFinish(p) ==
    /\ pc[p] = "GetNewFrame"
    /\ LET f == fc[p]
           h == f.m_hCountSemaphore
           r == dwWaitResult[p]
           give == GetNewFrameRestore(r)
           ok == ReleaseSemaphoreOk(sem, h, give)
           framecount == IF give > 0 THEN sem[h].count ELSE 0
           t == GetNewFrameTail(f, framecount)
           taken == IF r = "WAIT_OBJECT_0" THEN 1 ELSE 0
       IN IF give > 0 /\ ~ok
          THEN /\ call' = [call EXCEPT ![p] =
                             PollCall("releasefailed", TRUE, r, taken, 0,
                                      f.m_LastFrameCount, seen[p], npub[h])]
               /\ UNCHANGED <<fc, sem, seen>>
          ELSE /\ sem' = [sem EXCEPT ![h].count = @ + give]
               /\ fc' = [fc EXCEPT ![p] = t.f]
               /\ call' = [call EXCEPT ![p] =
                             PollCall("peek", t.ret, r, taken, give,
                                      f.m_LastFrameCount, seen[p], npub[h])]
               /\ seen' = [seen EXCEPT ![p] =
                             [npub |-> npub[h], obs |-> framecount,
                              ret |-> BoolStr(t.ret), first |-> seen[p].npub # npub[h]]]
    /\ pc' = [pc EXCEPT ![p] = "idle"]
    /\ dwWaitResult' = [dwWaitResult EXCEPT ![p] = "none"]
    /\ UNCHANGED <<npub, pubCalled, hist>>
    /\ UNCHANGED <<lockVars, texVars, paceVars>>

\* ------------------------------------------------------ the access mutex

NoMutex == [owner |-> NULL, depth |-> 0, abandoned |-> FALSE, open |-> {}]

\* CreateMutexA(NULL, false, name): creates the object, not owned, or opens
\* the existing one.
CreateMutexA(m, p, n) == [m EXCEPT ![n].open = @ \cup {p}]

\* Mutant: a wait on a mutex is satisfied whoever owns it.
MutexFree_Always(m, p, h) == TRUE

\* The wait on a mutex is satisfied for p: nobody owns it, or p does.
MutexFree(m, p, h) == m[h].owner \in {NULL, p}

\* What the satisfied wait returns: the mutex of an owner that terminated is
\* given with WAIT_ABANDONED.
MutexWaitResult(m, h) == IF m[h].abandoned THEN "WAIT_ABANDONED" ELSE "WAIT_OBJECT_0"

\* The mutex after a wait of p on it was satisfied.
MutexTaken(m, p, h) ==
    [m EXCEPT ![h].owner = p, ![h].depth = @ + 1, ![h].abandoned = FALSE]

\* Mutant: ReleaseMutex releases the mutex whoever calls it.
ReleaseMutex_AnyCaller(m, p, h) ==
    IF m[h].depth <= 1 THEN [m EXCEPT ![h].owner = NULL, ![h].depth = 0]
    ELSE [m EXCEPT ![h].depth = @ - 1]

\* ReleaseMutex(h) by p: fails when p does not own the mutex.
ReleaseMutex(m, p, h) ==
    IF m[h].owner # p THEN m
    ELSE IF m[h].depth = 1 THEN [m EXCEPT ![h].owner = NULL, ![h].depth = 0]
    ELSE [m EXCEPT ![h].depth = @ - 1]

\* The mutexes after process p terminated: its handle is closed, a mutex it
\* owned is abandoned, an object without handles goes.
MutexProcessGone(m, p) ==
    [n \in Names |->
        IF m[n].open \ {p} = {} THEN NoMutex
        ELSE IF m[n].owner = p
        THEN [owner |-> NULL, depth |-> 0, abandoned |-> TRUE, open |-> m[n].open \ {p}]
        ELSE [m[n] EXCEPT !.open = @ \ {p}]]

\* Mutant: CheckAccess waits with INFINITE.
WaitExpired_Never(ms) == FALSE

\* WaitForSingleObject(m_hAccessMutex, 67): the time-out interval has elapsed.
WaitExpired(ms) == ms >= WaitTimeout

\* Mutant: CheckAccess reports access after a wait that timed out.
CheckAccessResult_TimeoutGrants(waitResult) ==
    waitResult \in {"WAIT_OBJECT_0", "WAIT_TIMEOUT"}

\* spoutFrameCount::CheckAccess, the switch on dwWaitResult
CheckAccessResult(waitResult) == waitResult = "WAIT_OBJECT_0"

AccessCall(ret, wait, ms) ==
    [op |-> "CheckAccess", ret |-> ret, wait |-> wait, waited |-> ms]

\* No handle of any access mutex is open in a process.
NoHandles == [n \in Names |-> 0]

\* The handles of access mutexes open in p's process.
HandlesOpen(p) == hOpen[p]["A"] + hOpen[p]["B"]

\* CloseHandle on a handle of the mutex n, of which p's process then has
\* left more: the object goes with its last handle.
CloseMutexHandle(m, p, n, left) ==
    IF left > 0 THEN m
    ELSE IF m[n].open \ {p} = {} THEN [m EXCEPT ![n] = NoMutex]
    ELSE [m EXCEPT ![n].open = @ \ {p}]

\* spoutFrameCount::CreateAccessMutex; created is whether CreateMutexA gives
\* a handle.
CreateAccessMutex(p, name, created) ==
    /\ pc[p] = "idle"
    /\ created => HandlesOpen(p) < MaxHandles
    /\ IF created
       THEN /\ mutex' = CreateMutexA(mutex, p, name)
            /\ m_hAccessMutex' = [m_hAccessMutex EXCEPT ![p] = name]
            /\ hOpen' = [hOpen EXCEPT ![p][name] = @ + 1]
       ELSE UNCHANGED <<mutex, m_hAccessMutex, hOpen>>
    /\ access' = [access EXCEPT ![p] = [op |-> "CreateAccessMutex"]]
    /\ UNCHANGED <<countVars, texVars, paceVars, pc, waited, held>>

\* spoutFrameCount::CloseAccessMutex
CloseAccessMutex(p) ==
    /\ pc[p] = "idle"
    /\ LET h == m_hAccessMutex[p] IN
       IF h # NULL
       THEN /\ hOpen' = [hOpen EXCEPT ![p][h] = @ - 1]
            /\ mutex' = CloseMutexHandle(mutex, p, h, hOpen[p][h] - 1)
       ELSE UNCHANGED <<mutex, hOpen>>
    /\ m_hAccessMutex' = [m_hAccessMutex EXCEPT ![p] = NULL]
    /\ access' = [access EXCEPT ![p] = [op |-> "CloseAccessMutex"]]
    /\ UNCHANGED <<countVars, texVars, paceVars, pc, waited, held>>

\* spoutFrameCount::~spoutFrameCount
Destructor(p) ==
    /\ pc[p] = "idle"
    /\ LET f == fc[p]
           s == CloseSemaphoreHandle(sem, p, f.m_hCountSemaphore)
           h == m_hAccessMutex[p]
       IN /\ fc' = [fc EXCEPT ![p].m_hCountSemaphore = NULL]
          /\ sem' = s
          /\ npub' = NpubFor(s)
          /\ pubCalled' = PubCalledFor(s)
          /\ hist' = HistFor(s)
          /\ IF h # NULL
             THEN /\ hOpen' = [hOpen EXCEPT ![p][h] = @ - 1]
                  /\ mutex' = CloseMutexHandle(mutex, p, h, hOpen[p][h] - 1)
             ELSE UNCHANGED <<mutex, hOpen>>
    /\ m_hAccessMutex' = [m_hAccessMutex EXCEPT ![p] = NULL]
    /\ access' = [access EXCEPT ![p] = [op |-> "~spoutFrameCount"]]
    /\ pc' = [pc EXCEPT ![p] = "destroyed"]
    /\ UNCHANGED <<dwWaitResult, call, seen, waited, held>>
    /\ UNCHANGED <<texVars, paceVars>>

\* spoutFrameCount::spoutFrameCount in a process whose object was destroyed
Constructor(p, reg) ==
    /\ pc[p] = "destroyed"
    /\ fc' = [fc EXCEPT ![p] = Constructed(reg)]
    /\ m_hAccessMutex' = [m_hAccessMutex EXCEPT ![p] = NULL]
    /\ access' = [access EXCEPT ![p] = [op |-> "none"]]
    /\ pc' = [pc EXCEPT ![p] = "idle"]
    /\ UNCHANGED <<sem, dwWaitResult, call, seen, npub, pubCalled, hist>>
    /\ UNCHANGED <<mutex, waited, held, hOpen, texVars, paceVars>>

\* spoutFrameCount::CheckAccess up to the point where its wait is satisfied
\* at once or starts to block.
CheckAccessCall(p) ==
    /\ pc[p] = "idle"
    /\ Len(held[p]) < MaxNest
    /\ LET h == m_hAccessMutex[p] IN
       IF h = NULL
       THEN /\ access' = [access EXCEPT ![p] = AccessCall(TRUE, "none", 0)]
            /\ held' = [held EXCEPT ![p] = Append(@, h)]
            /\ UNCHANGED <<mutex, pc, waited>>
       ELSE IF MutexFree(mutex, p, h)
       THEN LET r == MutexWaitResult(mutex, h) IN
            /\ mutex' = MutexTaken(mutex, p, h)
            /\ access' = [access EXCEPT ![p] = AccessCall(CheckAccessResult(r), r, 0)]
            /\ held' = [held EXCEPT ![p] = IF CheckAccessResult(r) THEN Append(@, h) ELSE @]
            /\ UNCHANGED <<pc, waited>>
       ELSE /\ pc' = [pc EXCEPT ![p] = "CheckAccess"]
            /\ waited' = [waited EXCEPT ![p] = 0]
            /\ access' = [access EXCEPT ![p] = [op |-> "CheckAccess_wait"]]
            /\ UNCHANGED <<mutex, held>>
    /\ UNCHANGED <<countVars, texVars, paceVars, m_hAccessMutex, hOpen>>

\* spoutFrameCount::CheckAccess: the wait is satisfied while p blocks
CheckAccessWake(p) ==
    /\ pc[p] = "CheckAccess"
    /\ MutexFree(mutex, p, m_hAccessMutex[p])
    /\ LET h == m_hAccessMutex[p]
           r == MutexWaitResult(mutex, h)
       IN /\ mutex' = MutexTaken(mutex, p, h)
          /\ access' = [access EXCEPT ![p] = AccessCall(CheckAccessResult(r), r, waited[p])]
          /\ held' = [held EXCEPT ![p] = IF CheckAccessResult(r) THEN Append(@, h) ELSE @]
    /\ pc' = [pc EXCEPT ![p] = "idle"]
    /\ waited' = [waited EXCEPT ![p] = 0]
    /\ UNCHANGED <<countVars, texVars, paceVars, m_hAccessMutex, hOpen>>

\* spoutFrameCount::CheckAccess: the wait ends with WAIT_TIMEOUT
CheckAccessTimeout(p) ==
    /\ pc[p] = "CheckAccess"
    /\ WaitExpired(waited[p])
    /\ access' = [access EXCEPT ![p] =
                    AccessCall(CheckAccessResult("WAIT_TIMEOUT"), "WAIT_TIMEOUT", waited[p])]
    /\ held' = [held EXCEPT ![p] =
                  IF CheckAccessResult("WAIT_TIMEOUT") THEN Append(@, m_hAccessMutex[p]) ELSE @]
    /\ pc' = [pc EXCEPT ![p] = "idle"]
    /\ waited' = [waited EXCEPT ![p] = 0]
    /\ UNCHANGED <<countVars, texVars, paceVars, m_hAccessMutex, hOpen, mutex>>

\* spoutFrameCount::AllowAccess
AllowAccess(p) ==
    /\ pc[p] = "idle"
    /\ mutex' = IF m_hAccessMutex[p] # NULL
                THEN ReleaseMutex(mutex, p, m_hAccessMutex[p]) ELSE mutex
    /\ held' = [held EXCEPT ![p] = IF Len(@) > 0 THEN SubSeq(@, 1, Len(@) - 1) ELSE @]
    /\ access' = [access EXCEPT ![p] = [op |-> "AllowAccess"]]
    /\ UNCHANGED <<countVars, texVars, paceVars, pc, m_hAccessMutex, hOpen, waited>>

\* --------------------------------------------------- the texture's keyed mutex

\* D3D11_TEXTURE2D_DESC::MiscFlags of a texture
MiscFlags(t) == IF t = KeyedTex THEN {"D3D11_RESOURCE_MISC_SHARED_KEYEDMUTEX"} ELSE {}

\* QueryInterface(IDXGIKeyedMutex) gives an interface
HasKeyedMutex(t) == t # NULL /\ "D3D11_RESOURCE_MISC_SHARED_KEYEDMUTEX" \in MiscFlags(t)

\* Mutant: no texture is taken to have a keyed mutex.
IsKeyedMutex_Never(t) == FALSE

\* Mutant: IsKeyedMutex without the test of the texture pointer.
IsKeyedMutex_NoNullTest(t) ==
    t = NULL \/ "D3D11_RESOURCE_MISC_SHARED_KEYEDMUTEX" \in MiscFlags(t)

\* spoutFrameCount::IsKeyedMutex
IsKeyedMutex(t) ==
    IF t # NULL THEN "D3D11_RESOURCE_MISC_SHARED_KEYEDMUTEX" \in MiscFlags(t) ELSE FALSE

\* The keyed mutex as the texture is created: released, with key 0.
NoKeyOwner == [owner |-> NULL, abandoned |-> FALSE]

\* acquired: AcquireSync calls that obtained the key; released: ReleaseSync
\* calls issued; stray: AllowKeyedAccess was called without a CheckKeyedAccess
\* that returned true before it; granted[p]: p's CheckKeyedAccess calls that
\* returned true and have no AllowKeyedAccess yet.
NoSync == [acquired |-> 0, released |-> 0, stray |-> FALSE, granted |-> [p \in Procs |-> 0]]

\* What AcquireSync(0, 67) of p can return: the key when no device holds it,
\* WAIT_TIMEOUT when one does for the whole interval, or an error.
AcquireSyncResults(k, p) ==
    IF k.owner = NULL
    THEN {IF k.abandoned THEN "WAIT_ABANDONED" ELSE "WAIT_OBJECT_0", "E_FAIL"}
    ELSE {"WAIT_TIMEOUT", "E_FAIL"}

\* AcquireSync obtained the key.
KeyObtained(hr) == hr \in {"WAIT_OBJECT_0", "WAIT_ABANDONED"}

KeyTaken(k, p, hr) == IF KeyObtained(hr) THEN [owner |-> p, abandoned |-> FALSE] ELSE k

\* ReleaseSync(0) by p: fails when p does not hold the key.
ReleaseSync(k, p) == IF k.owner = p THEN [k EXCEPT !.owner = NULL] ELSE k

\* The keyed mutex after process p terminated.
KeyProcessGone(k, p) == IF k.owner = p THEN [owner |-> NULL, abandoned |-> TRUE] ELSE k

\* spoutFrameCount::CheckKeyedAccess, the switch on hr
CheckKeyedAccessResult(hr) == hr = "WAIT_OBJECT_0"

KeyedCall(ret, hr, t) ==
    [op |-> "CheckKeyedAccess", ret |-> ret, wait |-> hr, waited |-> 0, tex |-> t]

\* spoutFrameCount::CheckKeyedAccess; hr is what AcquireSync returns.
CheckKeyedAccess(p, t, hr) ==
    /\ pc[p] = "idle"
    /\ IF HasKeyedMutex(t)
       THEN /\ hr \in AcquireSyncResults(keyed, p)
            /\ sync.released < MaxSync
            /\ sync.granted[p] < MaxNest
            /\ LET ret == CheckKeyedAccessResult(hr)
                   k == KeyTaken(keyed, p, hr)
               IN /\ keyed' = IF ret THEN k ELSE ReleaseSync(k, p)
                  /\ sync' = [sync EXCEPT
                                !.acquired = IF KeyObtained(hr) THEN @ + 1 ELSE @,
                                !.released = IF ret THEN @ ELSE @ + 1,
                                !.granted[p] = IF ret THEN @ + 1 ELSE @]
                  /\ access' = [access EXCEPT ![p] = KeyedCall(ret, hr, t)]
       ELSE /\ access' = [access EXCEPT ![p] = KeyedCall(FALSE, "none", t)]
            /\ UNCHANGED texVars
    /\ UNCHANGED <<countVars, paceVars, pc, m_hAccessMutex, hOpen, mutex, waited, held>>

\* spoutFrameCount::AllowKeyedAccess
AllowKeyedAccess(p, t) ==
    /\ pc[p] = "idle"
    /\ IF HasKeyedMutex(t)
       THEN /\ sync.released < MaxSync
            /\ keyed' = ReleaseSync(keyed, p)
            /\ sync' = [sync EXCEPT
                          !.released = @ + 1,
                          !.stray = @ \/ sync.granted[p] = 0,
                          !.granted[p] = IF @ > 0 THEN @ - 1 ELSE 0]
       ELSE UNCHANGED texVars
    /\ access' = [access EXCEPT ![p] = [op |-> "AllowKeyedAccess", tex |-> t]]
    /\ UNCHANGED <<countVars, paceVars, pc, m_hAccessMutex, hOpen, mutex, waited, held>>

\* spoutFrameCount::CheckTextureAccess up to the point where the call has
\* returned or blocks in the wait of CheckAccess.
CheckTextureAccess(p, t, hr) ==
    IF IsKeyedMutex(t) THEN CheckKeyedAccess(p, t, hr) ELSE CheckAccessCall(p)

\* spoutFrameCount::AllowTextureAccess
AllowTextureAccess(p, t) ==
    IF IsKeyedMutex(t) THEN AllowKeyedAccess(p, t) ELSE AllowAccess(p)

\* What AcquireSync can return.
HResults == {"WAIT_OBJECT_0", "WAIT_ABANDONED", "WAIT_TIMEOUT", "E_FAIL"}

\* The processes blocked in the wait of CheckAccess.
Waiters == {p \in Procs : pc[p] = "CheckAccess"}

\* Time passes for the blocked waits. A wait that can be satisfied, or whose
\* interval has elapsed, ends before more time passes.
Tick ==
    /\ Waiters # {}
    /\ \A p \in Waiters : waited[p] < WaitTimeout /\ ~MutexFree(mutex, p, m_hAccessMutex[p])
    /\ waited' = [p \in Procs |-> IF p \in Waiters THEN waited[p] + Quantum ELSE waited[p]]
    /\ UNCHANGED <<countVars, texVars, paceVars, pc, m_hAccessMutex, hOpen, mutex, held, access>>

\* A process terminates without closing or releasing anything.
Terminate(p) ==
    /\ pc[p] # "dead"
    /\ fc[p].m_hCountSemaphore = NULL
    /\ pc' = [pc EXCEPT ![p] = "dead"]
    /\ mutex' = MutexProcessGone(mutex, p)
    /\ m_hAccessMutex' = [m_hAccessMutex EXCEPT ![p] = NULL]
    /\ waited' = [waited EXCEPT ![p] = 0]
    /\ held' = [held EXCEPT ![p] = <<>>]
    /\ access' = [access EXCEPT ![p] = [op |-> "none"]]
    /\ hOpen' = [hOpen EXCEPT ![p] = NoHandles]
    /\ keyed' = KeyProcessGone(keyed, p)
    /\ sync' = [sync EXCEPT !.granted[p] = 0]
    /\ UNCHANGED <<countVars, paceVars>>

\* ------------------------------------------------------------ fps control

\* The fps arguments given to HoldFps.
FpsValues == {-1, 0, 4, 8}

\* Microseconds that pass in one step of the clock, and the longest time
\* followed between two HoldFps calls.
PaceStep == 62500
MaxElapsed == 312500

\* 1000.0 / framerate, msec per frame, kept in microseconds.
MillisForFrame(fps) == 1000000 \div fps

\* m_millisForFrame < 0.01 (m_millisForFrame == 0 without std::chrono)
PeriodUnset(f) == f.m_millisForFrame < 10

\* The frame time a call of HoldFps works with: computed from its argument
\* only while m_millisForFrame is unset.
HoldPeriod(f, fps) == IF PeriodUnset(f) THEN MillisForFrame(fps) ELSE f.m_millisForFrame

\* Sleep((DWORD)(m_millisForFrame - elapsedTime)) under elapsedTime <
\* m_millisForFrame: whole milliseconds, the fraction cut off.
SleepMillis(period, elapsedTime) ==
    IF elapsedTime < period THEN (period - elapsedTime) \div 1000 ELSE 0

\* spoutFrameCount::HoldFps
HoldFps(p, fps) ==
    /\ pc[p] = "idle"
    /\ IF fps <= 0
       THEN /\ call' = [call EXCEPT ![p] =
                          [op |-> "HoldFps", fps |-> fps, first |-> FALSE,
                           elapsedTime |-> 0, slept |-> 0]]
            /\ UNCHANGED <<fc, sinceFrameStart>>
       ELSE /\ fc' = [fc EXCEPT ![p].m_millisForFrame = HoldPeriod(fc[p], fps)]
            /\ sinceFrameStart' = [sinceFrameStart EXCEPT ![p] = 0]
            /\ call' = [call EXCEPT ![p] =
                          [op |-> "HoldFps", fps |-> fps,
                           first |-> PeriodUnset(fc[p]),
                           elapsedTime |-> sinceFrameStart[p],
                           slept |-> IF PeriodUnset(fc[p]) THEN 0
                                     ELSE SleepMillis(fc[p].m_millisForFrame,
                                                      sinceFrameStart[p])]]
    /\ UNCHANGED <<sem, pc, dwWaitResult, seen, npub, pubCalled, hist>>
    /\ UNCHANGED <<lockVars, texVars>>

\* The frame counts and the microseconds between frames given to UpdateSenderFps.
FrameCounts == {0, 1}
FrameTimes == {16000, 40000}

\* spoutFrameCount::UpdateSenderFps called for p's object
UpdateSenderFpsCall(p, framecount, frametime) ==
    /\ pc[p] = "idle"
    /\ fc' = [fc EXCEPT ![p] = UpdateSenderFps(fc[p], framecount, frametime)]
    /\ call' = [call EXCEPT ![p] =
                  [op |-> "UpdateSenderFps", framecount |-> framecount,
                   frametime |-> frametime,
                   number |-> fc[p].m_FrameTimeNumber + framecount]]
    /\ UNCHANGED <<sem, pc, dwWaitResult, seen, npub, pubCalled, hist>>
    /\ UNCHANGED <<lockVars, texVars, paceVars>>

\* Time passes between two calls of p.
Elapse(p) ==
    /\ pc[p] = "idle"
    /\ sinceFrameStart[p] + PaceStep <= MaxElapsed
    /\ sinceFrameStart' = [sinceFrameStart EXCEPT ![p] = @ + PaceStep]
    /\ UNCHANGED <<countVars, pc, lockVars, texVars>>

Init ==
    /\ fc \in [Procs -> {Constructed(reg) : reg \in BOOLEAN}]
    /\ sem = [n \in Names |-> NoSemaphore]
    /\ pc = [p \in Procs |-> "idle"]
    /\ dwWaitResult = [p \in Procs |-> "none"]
    /\ call = [p \in Procs |-> NoCall]
    /\ seen = [p \in Procs |-> -1]
    /\ npub = [n \in Names |-> 0]
    /\ pubCalled = [n \in Names |-> FALSE]
    /\ hist = [n \in Names |-> "none"]
    /\ m_hAccessMutex = [p \in Procs |-> NULL]
    /\ mutex = [n \in Names |-> NoMutex]
    /\ waited = [p \in Procs |-> 0]
    /\ held = [p \in Procs |-> <<>>]
    /\ access = [p \in Procs |-> [op |-> "none"]]
    /\ keyed = NoKeyOwner
    /\ sync = NoSync
    /\ hOpen = [p \in Procs |-> NoHandles]
    /\ sinceFrameStart = [p \in Procs |-> 0]

\* One sender and one receiver, every call of the frame counter.
Next ==
    \/ \E p \in LifeProcs, b \in BOOLEAN : SetFrameCount(p, b)
    \/ \E p \in LifeProcs, n \in PeerNames \cup {EmptyName}, c \in BOOLEAN :
          EnableFrameCount(p, n, c)
    \/ \E p \in LifeProcs : DisableFrameCount(p)
    \/ SetNewFrameWait(Sender)
    \/ SetNewFrameRelease(Sender)
    \/ \E p \in LifeProcs \ {Sender} : GetNewFrameSkip(p)
    \/ \E p \in LifeProcs \ {Sender} : GetNewFrameWait(p)
    \/ \E p \in LifeProcs \ {Sender} : GetNewFrameFinish(p)

Spec == Init /\ [][Next]_vars

\* One sender and all receivers, frame counting set in the registry, every
\* process enabling the same sender name.
InitPeers == Init /\ \A p \in Procs : fc[p].m_bFrameCount

NextPeers ==
    \/ \E p \in Procs, n \in PeerNames : EnableFrameCount(p, n, TRUE)
    \/ SetNewFrameWait(Sender)
    \/ SetNewFrameRelease(Sender)
    \/ \E p \in Receivers : GetNewFrameSkip(p)
    \/ \E p \in Receivers : GetNewFrameWait(p)
    \/ \E p \in Receivers : GetNewFrameFinish(p)

SpecPeers == InitPeers /\ [][NextPeers]_vars

\* One sender and one receiver that change from one sender name to another,
\* frame counting set in the registry.
NextNames ==
    \/ \E p \in LifeProcs, n \in Names, c \in BOOLEAN : EnableFrameCount(p, n, c)
    \/ SetNewFrameWait(Sender)
    \/ SetNewFrameRelease(Sender)
    \/ \E p \in LifeProcs \ {Sender} : GetNewFrameSkip(p)
    \/ \E p \in LifeProcs \ {Sender} : GetNewFrameWait(p)
    \/ \E p \in LifeProcs \ {Sender} : GetNewFrameFinish(p)

SpecNames == InitPeers /\ [][NextNames]_vars

\* A sender that paces its frames with HoldFps and enables frame counting
\* at any moment.
NextHold ==
    \/ \E fps \in FpsValues : HoldFps(Sender, fps)
    \/ Elapse(Sender)
    \/ \E n \in Names, c \in BOOLEAN : EnableFrameCount(Sender, n, c)

SpecHold == InitPeers /\ [][NextHold]_vars

\* The fps calculation of one object fed with frames.
NextFps ==
    \E framecount \in FrameCounts, frametime \in FrameTimes :
        UpdateSenderFpsCall(Sender, framecount, frametime)

SpecFps == InitPeers /\ [][NextFps]_vars

\* The access mutex of one sender name, used by the sender and the receivers.
NextLock ==
    \/ \E p \in Procs, n \in PeerNames, c \in BOOLEAN :
          m_hAccessMutex[p] = NULL /\ CreateAccessMutex(p, n, c)
    \/ \E p \in Procs : CheckAccessCall(p)
    \/ \E p \in Procs : CheckAccessWake(p)
    \/ \E p \in Procs : CheckAccessTimeout(p)
    \/ \E p \in Procs : AllowAccess(p)
    \/ \E p \in Procs : Terminate(p)
    \/ Tick

SpecLock == InitPeers /\ [][NextLock]_vars

\* The access to the shared texture of one sender name, by the mutex of the
\* name or by the keyed mutex of the texture.
NextTexture ==
    \/ \E p \in LifeProcs, n \in PeerNames :
          m_hAccessMutex[p] = NULL /\ CreateAccessMutex(p, n, TRUE)
    \/ \E p \in LifeProcs, t \in Textures, hr \in HResults : CheckTextureAccess(p, t, hr)
    \/ \E p \in LifeProcs : CheckAccessWake(p)
    \/ \E p \in LifeProcs : CheckAccessTimeout(p)
    \/ \E p \in LifeProcs, t \in Textures : AllowTextureAccess(p, t)
    \/ \E p \in LifeProcs : Terminate(p)
    \/ Tick

SpecTexture == InitPeers /\ [][NextTexture]_vars

\* Time does not stop: the steps of the processes take no time, so time
\* passes whenever it can again and again. The kernel ends a wait that is
\* satisfied or whose interval has elapsed.
SpecLockFair ==
    /\ SpecLock
    /\ SF_vars(Tick)
    /\ \A p \in Procs : WF_vars(CheckAccessWake(p)) /\ WF_vars(CheckAccessTimeout(p))

\* The loop of a process that shares the texture: on each iteration it calls
\* CheckAccess, and AllowAccess only after a CheckAccess that returned true.
IterationCheck(p) == m_hAccessMutex[p] # NULL /\ held[p] = <<>> /\ CheckAccessCall(p)

IterationAllow(p) == held[p] # <<>> /\ AllowAccess(p)

\* A CheckAccess of p is given the mutex.
MutexGiven(p) ==
    /\ CheckAccessCall(p) \/ CheckAccessWake(p)
    /\ mutex'[m_hAccessMutex[p]].owner = p

NextLoop ==
    \/ \E p \in Procs, n \in PeerNames : m_hAccessMutex[p] = NULL /\ CreateAccessMutex(p, n, TRUE)
    \/ \E p \in Procs : IterationCheck(p)
    \/ \E p \in Procs : CheckAccessWake(p)
    \/ \E p \in Procs : CheckAccessTimeout(p)
    \/ \E p \in Procs : IterationAllow(p)
    \/ \E p \in Procs : Terminate(p)
    \/ Tick

\* Every live process keeps iterating, time does not stop, the kernel ends
\* the waits, and a process whose wait the mutex can satisfy again and again
\* is given the mutex.
SpecLoopFair ==
    /\ InitPeers /\ [][NextLoop]_vars
    /\ SF_vars(Tick)
    /\ \A p \in Procs :
          /\ WF_vars(IterationCheck(p))
          /\ WF_vars(IterationAllow(p))
          /\ WF_vars(CheckAccessWake(p))
          /\ WF_vars(CheckAccessTimeout(p))
          /\ SF_vars(m_hAccessMutex[p] # NULL /\ held[p] = <<>> /\ MutexGiven(p))

\* The handles of the access mutexes in a sender and a receiver that create,
\* close and destroy their objects in any order.
NextHandles ==
    \/ \E p \in LifeProcs, n \in Names, c \in BOOLEAN : CreateAccessMutex(p, n, c)
    \/ \E p \in LifeProcs : CloseAccessMutex(p)
    \/ \E p \in LifeProcs : Destructor(p)
    \/ \E p \in LifeProcs, reg \in BOOLEAN : Constructor(p, reg)

SpecHandles == Init /\ [][NextHandles]_vars

\* A sender and its receivers that share a texture: each enables frame
\* counting and calls CreateAccessMutex once, then calls SetNewFrame or
\* GetNewFrame only between a CheckAccess that returned true and its
\* AllowAccess. CreateMutexA may give the last receiver no handle; every wait
\* of CheckAccess is satisfied before its interval has elapsed.
InLock(p) == held[p] # <<>>

MayFail == {"rx2"}

\* SetNewFrame calls followed in the shared-texture loop.
MaxGuardedFrames == 1

NextGuarded ==
    \/ \E p \in Procs, n \in PeerNames :
          fc[p].m_hCountSemaphore = NULL /\ ~InLock(p) /\ EnableFrameCount(p, n, TRUE)
    \/ \E p \in Procs, n \in PeerNames, c \in BOOLEAN :
          access[p].op = "none" /\ (c \/ p \in MayFail) /\ CreateAccessMutex(p, n, c)
    \/ \E p \in Procs :
          fc[p].m_hCountSemaphore # NULL /\ access[p].op # "none" /\ ~InLock(p)
          /\ CheckAccessCall(p)
    \/ \E p \in Procs : CheckAccessWake(p)
    \/ \E p \in Procs : InLock(p) /\ AllowAccess(p)
    \/ InLock(Sender) /\ npub[fc[Sender].m_hCountSemaphore] < MaxGuardedFrames
          /\ SetNewFrameWait(Sender)
    \/ SetNewFrameRelease(Sender)
    \/ \E p \in Receivers : InLock(p) /\ GetNewFrameWait(p)
    \/ \E p \in Receivers : GetNewFrameFinish(p)

SpecGuarded == InitPeers /\ [][NextGuarded]_vars

\* ---------------------------------------------------------------- claims

\* No process is inside a call on the semaphore h.
Quiet(h) == \A q \in Procs : fc[q].m_hCountSemaphore = h => pc[q] = "idle"

\* p's most recent call is a GetNewFrame that went to the semaphore h.
Polled(p, h) ==
    /\ pc[p] = "idle"
    /\ call[p].op = "GetNewFrame"
    /\ call[p].path = "peek"
    /\ fc[p].m_hCountSemaphore = h

\* C1: on a fresh channel, after N successful SetNewFrame calls and no
\* GetNewFrame between them, the sender's frame number is N and a GetNewFrame
\* that follows observes N.
C1_PublishCount ==
    \A h \in Names :
        (hist[h] \in {"pubs", "polls"} /\ Quiet(h) /\ fc[Sender].m_hCountSemaphore = h)
        => /\ fc[Sender].m_FrameCount = npub[h]
           /\ \A p \in Receivers : Polled(p, h) => fc[p].m_FrameCount = npub[h]

C1_Witness ==
    /\ hist["A"] = "polls"
    /\ npub["A"] = MaxFrames
    /\ fc[Sender].m_FrameCount = MaxFrames
    /\ Polled("rx1", "A")
    /\ fc["rx1"].m_FrameCount = MaxFrames

\* C2 as claimed: under every interleaving of the steps of SetNewFrame and
\* GetNewFrame, the value a receiver observes never goes down from one of its
\* GetNewFrame calls to the next.
C2_AnyInterleaving ==
    \A p \in Receivers, h \in Names :
        (Polled(p, h) /\ call[p].prev.obs # -1)
        => fc[p].m_FrameCount >= call[p].prev.obs

\* C2 amended: the value a receiver observes never goes down from one of its
\* GetNewFrame calls to the next as long as no call on the semaphore has
\* overlapped another.
C2_NonDecreasing ==
    \A p \in Receivers, h \in Names :
        (Polled(p, h) /\ call[p].prev.obs # -1 /\ hist[h] # "overlapped")
        => fc[p].m_FrameCount >= call[p].prev.obs

C2_Witness ==
    \E p \in Receivers :
        /\ Polled(p, "A")
        /\ hist["A"] = "serial"
        /\ call[p].prev.obs = 1
        /\ fc[p].m_FrameCount = 2

\* C3: after a GetNewFrame that went to the semaphore, IsFrameNew() is
\* (observed # last observed before the call) or observed = 0, it is the
\* value the call returned, and the last observed count is the observed one.
C3_IsFrameNew ==
    \A p \in Receivers, h \in Names :
        Polled(p, h)
        => /\ fc[p].m_bIsNewFrame =
                 (fc[p].m_FrameCount # call[p].lastBefore \/ fc[p].m_FrameCount = 0)
           /\ fc[p].m_bIsNewFrame = call[p].ret
           /\ fc[p].m_LastFrameCount = fc[p].m_FrameCount

\* C4: when the calls do not overlap and a SetNewFrame has completed, a
\* GetNewFrame returns true exactly when a SetNewFrame completed since the
\* receiver's previous GetNewFrame (or the receiver had not polled yet).
C4_OneForOne ==
    \A p \in Receivers, h \in Names :
        (Polled(p, h) /\ hist[h] # "overlapped" /\ call[p].npub >= 1)
        => (call[p].ret <=> (call[p].prev.npub = -1 \/ call[p].prev.npub # call[p].npub))

C4_Witness ==
    \E p \in Receivers :
        /\ Polled(p, "A")
        /\ hist["A"] = "serial"
        /\ call[p].npub = 2
        /\ call[p].prev.npub = 2
        /\ call[p].prev.ret = "true"
        /\ call[p].prev.first
        /\ ~call[p].ret

\* p's two most recent calls are GetNewFrame calls on h with no SetNewFrame
\* between them, and no call on h has overlapped another.
TwoPolls(p, h) ==
    /\ Polled(p, h)
    /\ hist[h] # "overlapped"
    /\ call[p].prev.npub = call[p].npub

\* C5 as claimed: two GetNewFrame calls in a row with no SetNewFrame between
\* them return true then false, in any state.
C5_TrueThenFalse ==
    \A p \in Receivers, h \in Names :
        TwoPolls(p, h) => (call[p].prev.ret = "true" /\ ~call[p].ret)

\* C5 amended: of two GetNewFrame calls in a row with no SetNewFrame between
\* them (no calls overlapping), the second returns false once a SetNewFrame
\* has completed on the channel, and the first returned true if it was the
\* receiver's first since that SetNewFrame; on a channel with no completed
\* SetNewFrame both return true.
C5_SecondPoll ==
    \A p \in Receivers, h \in Names :
        TwoPolls(p, h)
        => /\ call[p].npub >= 1 => ~call[p].ret
           /\ (call[p].npub >= 1 /\ call[p].prev.first) => call[p].prev.ret = "true"
           /\ call[p].npub = 0 => (call[p].ret /\ call[p].prev.ret = "true")

C5_Witness ==
    \E p \in Receivers :
        /\ TwoPolls(p, "A")
        /\ call[p].npub = 1
        /\ call[p].prev.first
        /\ call[p].prev.ret = "true"
        /\ ~call[p].ret

\* C6: a GetNewFrame on a semaphore on which SetNewFrame was never called
\* returns true, every time, and leaves the frame number and the last
\* observed count at 0.
C6_NeverPublished ==
    \A p \in Receivers, h \in Names :
        (Polled(p, h) /\ ~pubCalled[h])
        => /\ call[p].ret
           /\ fc[p].m_FrameCount = 0
           /\ fc[p].m_LastFrameCount = 0

C6_Witness ==
    \E p \in Receivers :
        /\ Polled(p, "A")
        /\ ~pubCalled["A"]
        /\ call[p].prev.ret = "true"
        /\ call[p].ret
        /\ call[p].wait = "WAIT_TIMEOUT"

\* p makes a GetNewFrame call in this step.
PollStep(p) ==
    /\ pc[p] = "idle"
    /\ call'[p] # call[p]
    /\ call'[p].op \in {"GetNewFrame", "GetNewFrame_wait"}

\* C7: a GetNewFrame made with frame counting off, application disabled or
\* no semaphore handle returns true and changes neither the object nor the
\* semaphore.
C7_PollDisabled ==
    [][\A p \in Receivers :
          (PollStep(p) /\ (~fc[p].m_bFrameCount \/ fc[p].m_bDisabled
                           \/ fc[p].m_hCountSemaphore = NULL))
          => /\ call'[p].op = "GetNewFrame"
             /\ call'[p].ret
             /\ pc'[p] = "idle"
             /\ fc' = fc
             /\ sem' = sem]_vars

C7_Witness ==
    \E p \in Receivers :
        /\ call[p].op = "GetNewFrame"
        /\ call[p].path = "disabled"
        /\ call[p].ret
        /\ fc[p].m_bDisabled

\* C8 as claimed: GetNewFrame gives exactly 1 back to the semaphore whatever
\* its wait returned.
C8_AlwaysRestoresOne ==
    \A p \in Receivers, h \in Names : Polled(p, h) => call[p].given = 1

\* C8 amended: GetNewFrame gives back exactly what its wait took (1 after
\* WAIT_OBJECT_0, nothing otherwise), so with no call in progress the count of
\* the semaphore is 1 + the number of completed SetNewFrame calls.
C8_Peek ==
    \A h \in Names :
        /\ \A p \in Receivers :
              Polled(p, h) => /\ call[p].given = call[p].taken
                              /\ call[p].taken = 1 <=> call[p].wait = "WAIT_OBJECT_0"
        /\ (SemExists(sem, h) /\ Quiet(h)) => sem[h].count = npub[h] + 1

C8_Witness ==
    \E p \in Receivers :
        /\ Polled(p, "A")
        /\ call[p].wait = "WAIT_TIMEOUT"
        /\ call[p].given = 0
        /\ Quiet("A")
        /\ npub["A"] = 1
        /\ sem["A"].count = 2

\* p is between a CheckAccess on the mutex n that returned true and the
\* AllowAccess that matches it.
HasAccess(p, n) == \E i \in 1..Len(held[p]) : held[p][i] = n

CheckAccessReturned(p) ==
    \/ pc[p] = "dead"
    \/ /\ pc[p] = "idle"
       /\ access[p].op = "CheckAccess"
       /\ access[p].wait = "WAIT_TIMEOUT"
          => /\ ~access[p].ret
             /\ access[p].waited >= WaitTimeout
             /\ access[p].waited < WaitTimeout + Quantum

\* C10: a CheckAccess that blocks always returns, with false once the
\* interval has elapsed, whatever the owner of the mutex does.
C10_BoundedWait ==
    \A p \in Procs : (pc[p] = "CheckAccess") ~> CheckAccessReturned(p)

C10_Witness ==
    \E p, q \in Procs :
        /\ p # q
        /\ pc[p] = "idle"
        /\ access[p].op = "CheckAccess"
        /\ access[p].wait = "WAIT_TIMEOUT"
        /\ access[p].waited >= WaitTimeout
        /\ ~access[p].ret
        /\ mutex["A"].owner = q
        /\ HasAccess(q, "A")

\* p's most recent call was a CheckAccess or CheckKeyedAccess that returned.
Checked(p) == access[p].op \in {"CheckAccess", "CheckKeyedAccess"}

\* C11: a CheckAccess or CheckKeyedAccess whose wait ended with
\* WAIT_ABANDONED returns true.
C11_AbandonedAcquired ==
    \A p \in Procs : (Checked(p) /\ access[p].wait = "WAIT_ABANDONED") => access[p].ret

\* The texture is created with D3D11_RESOURCE_MISC_SHARED_KEYEDMUTEX.
KeyedCapable(t) == "D3D11_RESOURCE_MISC_SHARED_KEYEDMUTEX" \in MiscFlags(t)

\* A step is a CheckTextureAccess or AllowTextureAccess call of p for t.
TextureCall(p, t) ==
    \/ \E hr \in HResults : CheckTextureAccess(p, t, hr)
    \/ AllowTextureAccess(p, t)

\* C13: a call for a texture with a keyed mutex neither waits on nor
\* releases the access mutex, and a call for a texture without one makes no
\* AcquireSync or ReleaseSync.
C13_OneStrategy ==
    [][\A p \in Procs, t \in Textures :
         TextureCall(p, t) =>
            IF KeyedCapable(t)
            THEN mutex' = mutex /\ pc'[p] = "idle" /\ held' = held
            ELSE keyed' = keyed /\ sync' = sync]_vars

C13_Witness ==
    \E p, q \in Procs :
        /\ p # q
        /\ m_hAccessMutex[p] = "A"
        /\ mutex["A"].owner = q
        /\ access[p].op = "CheckKeyedAccess"
        /\ access[p].ret
        /\ keyed.owner = p

\* C14: as long as AllowKeyedAccess is called only after a CheckKeyedAccess
\* that returned true, no more ReleaseSync calls are issued than AcquireSync
\* calls obtained the key.
C14_ReleaseSyncBalanced == ~sync.stray => sync.released <= sync.acquired

\* C15 as stated: a CheckTextureAccess / AllowTextureAccess call with no
\* texture returns true at once and leaves the access mutex and the keyed
\* mutex alone.
C15_NullTextureNoOp ==
    [][\A p \in Procs :
         /\ (\E hr \in HResults : CheckTextureAccess(p, NULL, hr)) =>
               /\ pc'[p] = "idle"
               /\ access'[p].ret
               /\ mutex' = mutex
               /\ keyed' = keyed /\ sync' = sync
         /\ AllowTextureAccess(p, NULL) =>
               mutex' = mutex /\ keyed' = keyed /\ sync' = sync]_vars

\* C15: a CheckTextureAccess / AllowTextureAccess call with no texture
\* makes no AcquireSync or ReleaseSync; it returns true at once and leaves
\* the access mutex alone when the process has no handle of the access mutex.
C15_NullHandleNoOp ==
    [][\A p \in Procs :
         /\ (\E hr \in HResults : CheckTextureAccess(p, NULL, hr)) =>
               /\ keyed' = keyed /\ sync' = sync
               /\ m_hAccessMutex[p] = NULL =>
                     pc'[p] = "idle" /\ access'[p].ret /\ mutex' = mutex
         /\ AllowTextureAccess(p, NULL) =>
               /\ keyed' = keyed /\ sync' = sync
               /\ m_hAccessMutex[p] = NULL => mutex' = mutex]_vars

C15_Witness ==
    \E p, q \in Procs :
        /\ p # q
        /\ m_hAccessMutex[p] = NULL
        /\ mutex["A"].owner = q
        /\ access[p].op = "CheckAccess"
        /\ access[p].ret
        /\ access[p].wait = "none"

\* C12: every process that has the access mutex open and keeps iterating
\* has a CheckAccess that returns true again and again, unless it terminates,
\* also after an owner of the mutex terminated.
C12_NoPermanentFreeze ==
    \A p \in Procs :
        [](m_hAccessMutex[p] # NULL => <>(pc[p] = "dead" \/ HasAccess(p, "A")))

\* p owns the access mutex its handle refers to.
OwnsMutex(p) == m_hAccessMutex[p] # NULL /\ mutex[m_hAccessMutex[p]].owner = p

\* C16: an AllowAccess of a process that does not own the access mutex
\* leaves the mutex as it is, and every other process keeps the access it has.
C16_StrayAllowNoOp ==
    [][\A p \in Procs :
         (AllowAccess(p) /\ ~OwnsMutex(p)) =>
            /\ mutex' = mutex
            /\ \A q \in Procs \ {p} : held'[q] = held[q]]_vars

C16_Witness ==
    \E p, q \in Procs :
        /\ p # q
        /\ m_hAccessMutex[p] = "A"
        /\ held[p] = <<>>
        /\ access[p].op = "AllowAccess"
        /\ mutex["A"].owner = q
        /\ HasAccess(q, "A")

\* C17: an EnableFrameCount for the sender name the object is already
\* enabled for changes no member of the object.
C17_EnableIdempotent ==
    [][\A p \in Procs, n \in Names :
         ((\E c \in BOOLEAN : EnableFrameCount(p, n, c))
          /\ IsFrameCountEnabled(fc[p]) /\ AlreadyEnabled(fc[p], n))
         => fc'[p] = fc[p]]_vars

\* C18: an EnableFrameCount made with an empty name, with frame counting
\* off in the registry or with the application disable flag set changes
\* neither the object nor any semaphore.
C18_EnableRefused ==
    [][\A p \in Procs, n \in Names \cup {EmptyName} :
         ((\E c \in BOOLEAN : EnableFrameCount(p, n, c))
          /\ (n = EmptyName \/ ~fc[p].m_bFrameCount \/ fc[p].m_bDisabled))
         => fc'[p] = fc[p] /\ sem' = sem]_vars

C18_Witness ==
    \E p \in Procs :
        /\ call[p].op = "EnableFrameCount"
        /\ call[p].path = "refused"
        /\ fc[p].m_bFrameCount
        /\ fc[p].m_bDisabled

\* C19: when DisableFrameCount has returned the object has no semaphore
\* handle and no sender name, its frame count and comparator are 0, and the
\* application disable flag is set.
C19_AfterDisable ==
    \A p \in Procs :
        call[p].op = "DisableFrameCount" =>
            /\ fc[p].m_hCountSemaphore = NULL
            /\ fc[p].m_SenderName = EmptyName
            /\ fc[p].m_FrameCount = 0
            /\ fc[p].m_LastFrameCount = 0
            /\ fc[p].m_bDisabled

\* C20 as stated: SetFrameCount(true) clears the application disable flag.
C20_SetTrueClears ==
    \A p \in Procs :
        (call[p].op = "SetFrameCount" /\ call[p].bEnable) => ~fc[p].m_bDisabled

\* C20: SetFrameCount(true) clears the application disable flag only when
\* frame counting was off in the registry, SetFrameCount(false) clears it
\* always, and an EnableFrameCount with a sender name made with the flag
\* clear and frame counting on holds the semaphore that CreateSemaphoreA gave.
C20_FlagCleared ==
    [][\A p \in Procs :
         /\ \A b \in BOOLEAN :
               SetFrameCount(p, b) =>
                  fc'[p].m_bDisabled = (fc[p].m_bDisabled /\ b /\ fc[p].m_bFrameCount)
         /\ \A n \in Names :
               (EnableFrameCount(p, n, TRUE) /\ IsFrameCountEnabled(fc[p]))
               => fc'[p].m_hCountSemaphore = n]_vars

\* SetFrameCount(true) has returned in an object that DisableFrameCount had
\* marked as disabled, and the flag is still set.
C20_Witness ==
    \E p \in Procs :
        /\ call[p].op = "SetFrameCount"
        /\ call[p].bEnable
        /\ fc[p].m_bFrameCount
        /\ fc[p].m_bDisabled
        /\ ~IsFrameCountEnabled(fc[p])

\* p's last two calls were DisableFrameCount and then EnableFrameCount with
\* the sender name the object had been enabled for.
DisabledThenEnabled(p) ==
    /\ call[p].op = "EnableFrameCount"
    /\ call[p].after.op = "DisableFrameCount"
    /\ call[p].name # EmptyName
    /\ call[p].name = call[p].after.name

\* C21: after DisableFrameCount followed by EnableFrameCount with the same
\* sender name the frame count and the comparator are 0.
C21_DisableEnableResets ==
    \A p \in Procs :
        DisabledThenEnabled(p) =>
            fc[p].m_FrameCount = 0 /\ fc[p].m_LastFrameCount = 0

C21_Witness ==
    \E p \in Procs : DisabledThenEnabled(p) /\ call[p].after.counted

\* A step is the start of a SetNewFrame call of p.
PublishStep(p) ==
    /\ pc[p] = "idle"
    /\ call'[p] # call[p]
    /\ call'[p].op \in {"SetNewFrame", "SetNewFrame_wait"}

\* C22: SetFrameCount(false) leaves the object without semaphore handle and
\* with frame count and comparator 0, and while frame counting is off
\* SetNewFrame and GetNewFrame change nothing, GetNewFrame returning true.
C22_SetFalseTearsDown ==
    [][\A p \in Procs :
         /\ SetFrameCount(p, FALSE) =>
               /\ ~fc'[p].m_bFrameCount
               /\ fc'[p].m_hCountSemaphore = NULL
               /\ fc'[p].m_FrameCount = 0
               /\ fc'[p].m_LastFrameCount = 0
               /\ \A n \in Names : p \notin sem'[n].open
         /\ (~fc[p].m_bFrameCount /\ (PublishStep(p) \/ PollStep(p))) =>
               /\ fc' = fc /\ sem' = sem /\ pc'[p] = "idle"
               /\ call'[p].op = "GetNewFrame" => call'[p].ret]_vars

C22_Witness ==
    \E p \in Procs :
        /\ call[p].op = "SetFrameCount"
        /\ ~call[p].bEnable
        /\ call[p].cleaned
        /\ \E q \in Procs \ {p} : fc[q].m_hCountSemaphore # NULL

\* C23: a SetNewFrame whose wait does not give WAIT_OBJECT_0 returns at once
\* and changes neither the object nor the semaphore, and the frame count
\* goes up only by 1 and only in a SetNewFrame whose wait and release both
\* succeeded.
C23_PublishNeverStalls ==
    [][/\ (PublishStep(Sender) /\ call'[Sender].op = "SetNewFrame") =>
             fc' = fc /\ sem' = sem /\ pc'[Sender] = "idle"
       /\ (fc'[Sender].m_FrameCount > fc[Sender].m_FrameCount) =>
             /\ pc[Sender] = "SetNewFrame"
             /\ call'[Sender].op = "SetNewFrame"
             /\ call'[Sender].wait = "WAIT_OBJECT_0"
             /\ call'[Sender].counted
             /\ fc'[Sender].m_FrameCount = fc[Sender].m_FrameCount + 1]_vars

C23_Witness ==
    /\ call[Sender].op = "SetNewFrame"
    /\ call[Sender].wait = "WAIT_TIMEOUT"
    /\ ~call[Sender].counted
    /\ IsFrameCountEnabled(fc[Sender])

\* C24: an EnableFrameCount whose CreateSemaphoreA gives no handle leaves
\* the object without a handle, the handle it had being closed, and while
\* frame counting is enabled without a handle SetNewFrame and GetNewFrame
\* change nothing, GetNewFrame returning true.
C24_CreateFailedFailsOpen ==
    [][\A p \in Procs :
         /\ \A n \in Names :
               (EnableFrameCount(p, n, FALSE) /\ ~EnableRefused(fc[p], n)
                /\ ~AlreadyEnabled(fc[p], n)) =>
                  /\ fc'[p].m_hCountSemaphore = NULL
                  /\ \A m \in Names : p \notin sem'[m].open
         /\ (IsFrameCountEnabled(fc[p]) /\ fc[p].m_hCountSemaphore = NULL
             /\ (PublishStep(p) \/ PollStep(p))) =>
               /\ fc' = fc /\ sem' = sem /\ pc'[p] = "idle"
               /\ call'[p].op = "GetNewFrame" => call'[p].ret]_vars

C24_Witness ==
    \E p \in Procs :
        /\ call[p].op = "EnableFrameCount"
        /\ call[p].path = "failed"
        /\ call[p].had # NULL
        /\ call[p].had # call[p].name
        /\ fc[p].m_hCountSemaphore = NULL

\* C25: a HoldFps call with fps > 0 that is not the first one since the
\* object was initialised sleeps for 1000/fps milliseconds less the time
\* elapsed since the call before it (whole milliseconds, nothing when that
\* time is at least 1000/fps), whatever fps the earlier calls were given,
\* and a HoldFps call with fps <= 0 changes no member.
C25_HoldRemainderOfCall ==
    [][\A p \in Procs, fps \in FpsValues :
         HoldFps(p, fps) =>
            IF fps <= 0
            THEN fc' = fc /\ sinceFrameStart' = sinceFrameStart
            ELSE ~call'[p].first =>
                   call'[p].slept =
                      SleepMillis(MillisForFrame(fps), call'[p].elapsedTime)]_vars

\* C26: when UpdateSenderFps is given one frame per call, the call that
\* brings the accumulated frames to 16 sets m_FrameTimeTotal and
\* m_FrameTimeNumber back to 0, so that m_FrameTimeNumber is never more than 16.
C26_WindowOfSixteen ==
    [][(\E frametime \in FrameTimes : UpdateSenderFpsCall(Sender, 1, frametime)) =>
          /\ fc[Sender].m_FrameTimeNumber + 1 = 16 =>
                /\ fc'[Sender].m_FrameTimeNumber = 0
                /\ fc'[Sender].m_FrameTimeTotal = 0
          /\ fc'[Sender].m_FrameTimeNumber <= 16]_vars

\* C27: whenever no SetNewFrame or GetNewFrame is in progress on the
\* semaphore the sender has enabled, the sender's frame number is the count
\* a GetNewFrame on that semaphore would read (the semaphore's count less
\* the one it was created with).
C27_SenderCountIsShared ==
    \A h \in Names :
        (Quiet(h) /\ IsFrameCountEnabled(fc[Sender]) /\ fc[Sender].m_hCountSemaphore = h)
        => fc[Sender].m_FrameCount = sem[h].count - 1

\* p has called SetNewFrame or GetNewFrame without a handle of the access
\* mutex, its CheckAccess returning true without a wait.
NoHandle(p) ==
    m_hAccessMutex[p] = NULL /\ call[p].op \notin {"none", "EnableFrameCount"}

\* C28 as claimed: with every SetNewFrame and GetNewFrame made between a
\* CheckAccess that returned true and its AllowAccess, no two calls on a
\* semaphore overlap and every GetNewFrame observes the number of completed
\* SetNewFrame calls.
C28_NeverInterleaved ==
    \A h \in Names :
        /\ hist[h] # "overlapped"
        /\ \A p \in Procs : InCount(p) /\ fc[p].m_hCountSemaphore = h => Busy(p, h) = {}
        /\ \A p \in Receivers : Polled(p, h) => fc[p].m_FrameCount = call[p].npub

\* C28 amended: the same, as long as no process has made its calls without
\* a handle of the access mutex (CreateAccessMutex gave it none).
C28_InterleavedOnlyWithoutHandle ==
    (\A q \in Procs : ~NoHandle(q)) => C28_NeverInterleaved

C28_Witness ==
    \E p, q \in Receivers :
        /\ \A r \in Procs : m_hAccessMutex[r] = "A"
        /\ pc[p] = "GetNewFrame"
        /\ pc[q] = "CheckAccess"
        /\ pc[Sender] = "CheckAccess"
        /\ npub["A"] >= 1

\* C29 as claimed: whenever the sender, frame counting enabled and a
\* semaphore open, starts SetNewFrame, the count of the semaphore is at least
\* 1, so that its wait succeeds.
C29_WaitAlwaysSucceeds ==
    [][(PublishStep(Sender) /\ IsFrameCountEnabled(fc[Sender])
        /\ fc[Sender].m_hCountSemaphore # NULL)
       => sem[fc[Sender].m_hCountSemaphore].count >= 1]_vars

\* C29 amended: the same for a SetNewFrame called inside the access mutex,
\* as long as no process has made its calls without a handle of that mutex;
\* the wait then gives WAIT_OBJECT_0.
C29_WaitSucceedsInLock ==
    [][(PublishStep(Sender) /\ IsFrameCountEnabled(fc[Sender])
        /\ fc[Sender].m_hCountSemaphore # NULL
        /\ HasAccess(Sender, "A") /\ \A q \in Procs : ~NoHandle(q))
       => /\ sem[fc[Sender].m_hCountSemaphore].count >= 1
          /\ pc'[Sender] = "SetNewFrame"]_vars

C29_Witness ==
    /\ call[Sender].op = "SetNewFrame"
    /\ call[Sender].wait = "WAIT_OBJECT_0"
    /\ call[Sender].counted
    /\ HasAccess(Sender, "A")
    /\ \A q \in Procs : m_hAccessMutex[q] = "A"
    /\ \E p \in Receivers :
          /\ call[p].op = "GetNewFrame"
          /\ call[p].taken = 1
          /\ call[p].npub = 0
    /\ \E p \in Receivers : pc[p] = "CheckAccess"

\* C30: p's spoutFrameCount holds at most one open handle of an access
\* mutex at a time, and after CloseAccessMutex or the destructor every handle
\* that CreateAccessMutex opened for it has been closed.
C30_HandlesClosedOnce ==
    \A p \in Procs :
        /\ HandlesOpen(p) <= 1
        /\ access[p].op \in {"CloseAccessMutex", "~spoutFrameCount"} => HandlesOpen(p) = 0

\* C31: an object has a semaphore handle only while frame counting is set
\* in the registry and not disabled by the application, and while it has no
\* handle its frame number and its last observed count are 0.
C31_HandleOnlyWhileEnabled ==
    \A p \in Procs :
        /\ fc[p].m_hCountSemaphore # NULL => IsFrameCountEnabled(fc[p])
        /\ fc[p].m_hCountSemaphore = NULL =>
              fc[p].m_FrameCount = 0 /\ fc[p].m_LastFrameCount = 0

C31_Witness ==
    /\ fc[Sender].m_hCountSemaphore = "A"
    /\ fc[Sender].m_FrameCount = MaxFrames
    /\ call["rx1"].op = "DisableFrameCount"
    /\ call["rx1"].counted
    /\ fc["rx1"].m_hCountSemaphore = NULL
    /\ fc["rx1"].m_bDisabled

\* C32: after a CheckAccess that returned false, whatever its wait returned,
\* the calling process does not own the access mutex.
C32_FailedCheckNotOwner ==
    \A p \in Procs :
        (pc[p] = "idle" /\ access[p].op = "CheckAccess" /\ ~access[p].ret)
        => ~OwnsMutex(p)

====
